---------------------------- MODULE Spec2Model ----------------------------
(***************************************************************************)
(* Model of the change-detection pipeline of Sasken_project:               *)
(*   - src/change_detection/detector.py : ChangeDetector.detect_changes    *)
(*   - src/parsers/docx_parser.py       : parse_docx and its helpers       *)
(* Text is modelled by TLA+ strings (Len, \o and SubSeq act on them), so   *)
(* lengths, concatenations and comparisons are computed as the code does.  *)
(***************************************************************************)
EXTENDS Integers, Sequences, FiniteSets, TLC

VARIABLES
    \* ---- detector.py ----
    old_doc,               \* DocumentSection tree given as old_doc
    new_doc,               \* DocumentSection tree given as new_doc
    similarity_threshold,  \* ChangeDetector.similarity_threshold, in hundredths
    changes,               \* list returned by the latest detect_changes call
    prev_changes,          \* list returned by the call before it (same inputs)
    outcome,               \* "none" | "returned" | "raised": the latest call
    prev_outcome,          \* the same for the call before it
    \* ---- docx_parser.py ----
    MAX_TOKENS,            \* module global MAX_TOKENS
    MIN_CHUNK_TOKENS,      \* module global MIN_CHUNK_TOKENS
    document,              \* the docx document given to parse_docx
    raw_chunks,            \* parse_docx: `chunks` as handed to merge_small_chunks
    merged,                \* what merge_small_chunks(chunks) returned
    result,                \* parse_docx: returned list (merged, re-numbered)
    remerged,              \* merge_small_chunks applied to its own output
    pc,                    \* "idle" | "start" | "parsed" | "remerged"
    par                    \* parse_docx calls running side by side: per call
                           \* its arguments, position, chunks and return value

detVars == <<old_doc, new_doc, similarity_threshold, changes, prev_changes,
             outcome, prev_outcome>>
chunkVars == <<MAX_TOKENS, MIN_CHUNK_TOKENS, document, raw_chunks, merged,
               result, remerged, pc>>
vars == <<detVars, chunkVars, par>>

-----------------------------------------------------------------------------
(* Generic helpers *)

Max2(a, b) == IF a >= b THEN a ELSE b

\* all orderings (sequences without repetition) of the finite set S
Perms(S) ==
    {p \in [1..Cardinality(S) -> S] : \A i, j \in DOMAIN p : i # j => p[i] # p[j]}

-----------------------------------------------------------------------------
(* Python str *)

\* s[i] for a 0-based index i
Ch(s, i) == IF i < 0 \/ i >= Len(s) THEN "" ELSE SubSeq(s, i + 1, i + 1)

\* s[lo:hi] for 0 <= lo, hi
Slice(s, lo, hi) ==
    LET h == IF hi > Len(s) THEN Len(s) ELSE hi
    IN IF lo >= h THEN "" ELSE SubSeq(s, lo + 1, h)

\* the characters the model's texts use, in code point order
CodeOrder == " .0123456789CS_abcdefghijklmnopqrstuvwxyz"

Ord(c) == CHOOSE i \in 1..Len(CodeOrder) : SubSeq(CodeOrder, i, i) = c

RECURSIVE StrLess(_, _)
\* a < b on Python str: lexicographic by code point
StrLess(a, b) ==
    IF Len(b) = 0 THEN FALSE
    ELSE IF Len(a) = 0 THEN TRUE
    ELSE IF Head(a) = Head(b) THEN StrLess(Tail(a), Tail(b))
    ELSE Ord(Head(a)) < Ord(Head(b))

IsSpace(c) == c = " "
IsDigit(c) == c \in {"0", "1", "2", "3", "4", "5", "6", "7", "8", "9"}

RECURSIVE LStrip(_)
LStrip(s) == IF Len(s) > 0 /\ IsSpace(Head(s)) THEN LStrip(Tail(s)) ELSE s

RECURSIVE RStrip(_)
RStrip(s) ==
    IF Len(s) > 0 /\ IsSpace(Ch(s, Len(s) - 1))
    THEN RStrip(SubSeq(s, 1, Len(s) - 1)) ELSE s

\* str.strip()
Strip(s) == RStrip(LStrip(s))

UpperCase == "ABCDEFGHIJKLMNOPQRSTUVWXYZ"
LowerCase == "abcdefghijklmnopqrstuvwxyz"

LowerChar(c) ==
    IF \E i \in 0..(Len(UpperCase) - 1) : Ch(UpperCase, i) = c
    THEN Ch(LowerCase, CHOOSE i \in 0..(Len(UpperCase) - 1) : Ch(UpperCase, i) = c)
    ELSE c

RECURSIVE Lower(_)
\* str.lower()
Lower(s) == IF Len(s) = 0 THEN "" ELSE LowerChar(Head(s)) \o Lower(Tail(s))

\* s.startswith(prefix)
StartsWith(s, prefix) == Slice(s, 0, Len(prefix)) = prefix

-----------------------------------------------------------------------------
(* difflib.SequenceMatcher(None, a, b) and fuzz.partial_ratio, as used by  *)
(* compute_similarity (no junk; autojunk needs len(b) >= 200)              *)

RECURSIVE MatchLen(_, _, _, _, _, _)
\* length of the common run a[i:i+k] = b[j:j+k] with i+k <= ahi, j+k <= bhi
MatchLen(a, b, i, j, ahi, bhi) ==
    IF i < ahi /\ j < bhi /\ Ch(a, i) = Ch(b, j)
    THEN 1 + MatchLen(a, b, i + 1, j + 1, ahi, bhi)
    ELSE 0

\* SequenceMatcher.find_longest_match: longest block, earliest in a, then in b
find_longest_match(a, b, alo, ahi, blo, bhi) ==
    LET cands == {<<i, j, MatchLen(a, b, i, j, ahi, bhi)>> :
                     i \in alo..(ahi - 1), j \in blo..(bhi - 1)}
        pos == {c \in cands : c[3] > 0}
    IN IF pos = {} THEN <<alo, blo, 0>>
       ELSE CHOOSE c \in pos :
              \A d \in pos :
                 \/ c[3] > d[3]
                 \/ c[3] = d[3] /\ c[1] < d[1]
                 \/ c[3] = d[3] /\ c[1] = d[1] /\ c[2] <= d[2]

RECURSIVE MatchingBlocksIn(_, _, _, _, _, _)
\* the non-empty blocks get_matching_blocks finds in a[alo:ahi], b[blo:bhi]
MatchingBlocksIn(a, b, alo, ahi, blo, bhi) ==
    LET m == find_longest_match(a, b, alo, ahi, blo, bhi)
    IN IF m[3] = 0 THEN {}
       ELSE MatchingBlocksIn(a, b, alo, m[1], blo, m[2])
            \cup {m}
            \cup MatchingBlocksIn(a, b, m[1] + m[3], ahi, m[2] + m[3], bhi)

\* get_matching_blocks(): the blocks and the closing sentinel (la, lb, 0)
get_matching_blocks(a, b) ==
    MatchingBlocksIn(a, b, 0, Len(a), 0, Len(b)) \cup {<<Len(a), Len(b), 0>>}

RECURSIVE SumSizes(_)
\* sum of the sizes of a set of matching blocks
SumSizes(S) ==
    IF S = {} THEN 0
    ELSE LET m == CHOOSE y \in S : TRUE IN m[3] + SumSizes(S \ {m})

\* SequenceMatcher.ratio() = 2.0*M/T (1.0 when T = 0), as the fraction <<n, d>>
ratio(a, b) ==
    LET T == Len(a) + Len(b)
        M == SumSizes(get_matching_blocks(a, b))
    IN IF T = 0 THEN <<1, 1>> ELSE <<2 * M, T>>

\* int(round(100 * n/d)), round half to even
intr100(f) ==
    LET n == 100 * f[1]
        q == n \div f[2]
        r == n % f[2]
    IN IF 2 * r < f[2] THEN q
       ELSE IF 2 * r > f[2] THEN q + 1
       ELSE IF q % 2 = 0 THEN q ELSE q + 1

FracLess(f, g) == f[1] * g[2] < g[1] * f[2]

\* fuzz.partial_ratio(s1, s2): an integer 0..100
partial_ratio(s1, s2) ==
    IF s1 = s2 THEN 100
    ELSE IF Len(s1) = 0 \/ Len(s2) = 0 THEN 0
    ELSE
      LET shorter == IF Len(s1) <= Len(s2) THEN s1 ELSE s2
          longer  == IF Len(s1) <= Len(s2) THEN s2 ELSE s1
          scores  == {LET long_start == IF m[2] - m[1] > 0 THEN m[2] - m[1] ELSE 0
                          long_substr == Slice(longer, long_start,
                                               long_start + Len(shorter))
                      IN ratio(shorter, long_substr) :
                          m \in get_matching_blocks(shorter, longer)}
          best == CHOOSE r \in scores : \A q \in scores : ~FracLess(r, q)
      IN IF FracLess(<<995, 1000>>, best) THEN 100 ELSE intr100(best)

\* compute_similarity(a, b) = (seq_score + fuzz_score) / 2, as a fraction
compute_similarity(a, b) ==
    LET seq == ratio(a, b)
        fz  == partial_ratio(a, b)
    IN <<100 * seq[1] + fz * seq[2], 200 * seq[2]>>

\* score < threshold, the threshold given in hundredths
BelowThreshold(score, threshold) == FracLess(score, <<threshold, 100>>)

-----------------------------------------------------------------------------
(* DocumentSection trees (parsers.base_parser.DocumentSection: the fields  *)
(* detector.py reads are section_id, title, content and subsections)       *)

MaxSections == 2     \* sections of a tree, the root included

SectionIds == {"1", "1.1"}
Contents == {"ab", "ac"}
Titles == {"Scope"}
\* similarity_threshold values, in hundredths: the default 0.85 and 0.5
Thresholds == {85, 50}

DocumentSection(id, title, content, subs) ==
    [section_id |-> id, title |-> title, content |-> content, subsections |-> subs]

RECURSIVE Forests(_), SectionsOfSize(_)
\* the sequences of sibling sections that hold n sections in all
Forests(n) ==
    IF n = 0 THEN {<<>>}
    ELSE UNION {{<<t>> \o f : t \in SectionsOfSize(k), f \in Forests(n - k)} :
                   k \in 1..n}
\* the sections that, with their descendants, are k sections
SectionsOfSize(k) ==
    {DocumentSection(id, t, c, f) :
        id \in SectionIds, t \in Titles, c \in Contents, f \in Forests(k - 1)}

\* the trees given to detect_changes: a root section and its descendants
Documents == UNION {SectionsOfSize(n) : n \in 1..MaxSections}

-----------------------------------------------------------------------------
(* Python dict, insertion ordered: a sequence of <<key, value>> *)

Keys(d) == {d[i][1] : i \in DOMAIN d}
Lookup(d, k) == (CHOOSE e \in {d[i] : i \in DOMAIN d} : e[1] = k)[2]

\* d[k] = v, done the way a bug would: always inserted as a new entry
DictSetAppend(d, k, v) == Append(d, <<k, v>>)

\* d[k] = v : an existing key keeps its place and takes the new value
DictSet(d, k, v) ==
    IF k \in Keys(d)
    THEN [i \in DOMAIN d |-> IF d[i][1] = k THEN <<k, v>> ELSE d[i]]
    ELSE Append(d, <<k, v>>)

RECURSIVE FlattenRec(_, _), FlattenSubs(_, _, _)
\* _rec(sec) of _flatten_sections, acting on the dict flat
FlattenRec(flat, sec) ==
    FlattenSubs(DictSet(flat, sec.section_id, sec), sec.subsections, 1)
FlattenSubs(flat, subs, i) ==
    IF i > Len(subs) THEN flat
    ELSE FlattenSubs(FlattenRec(flat, subs[i]), subs, i + 1)

_flatten_sections(root) == FlattenRec(<<>>, root)

-----------------------------------------------------------------------------
(* ChangeDetector.detect_changes *)

ONE == <<1, 1>>      \* the float 1.0

Change(type, sid, old, new, score, title) ==
    [change_type |-> type, section_id |-> sid, old_content |-> old,
     new_content |-> new, similarity_score |-> score,
     context |-> [title |-> title]]

\* ADDED change with the contents swapped
AddedChangeSwapped(sid, new_sec) ==
    Change("added", sid, new_sec.content, "", ONE, new_sec.title)

AddedChange(sid, new_sec) ==
    Change("added", sid, "", new_sec.content, ONE, new_sec.title)

RemovedChange(sid, old_sec) ==
    Change("removed", sid, old_sec.content, "", ONE, old_sec.title)

\* the MODIFIED test with <= for <
IsModifiedOrEqual(old_text, new_text, threshold) ==
    /\ old_text # new_text
    /\ ~FracLess(<<threshold, 100>>, compute_similarity(old_text, new_text))

\* lines 124-126: contents differ and the score is below the threshold
IsModified(old_text, new_text, threshold) ==
    /\ old_text # new_text
    /\ BelowThreshold(compute_similarity(old_text, new_text), threshold)

\* the entries of dict d whose key is not a key of dict other, in d's order
EntriesNotIn(d, other) == SelectSeq(d, LAMBDA e : e[1] \notin Keys(other))

\* set(old_map.keys()) & set(new_map.keys())
Shared(old_map, new_map) == Keys(old_map) \cap Keys(new_map)

\* The list detect_changes returns.  order is the order in which the loop
\* `for sid in shared` visits the set: iterating a set of str follows the
\* strings' hashes, which Python randomises per interpreter run.
detect_changes(old, new, threshold, order) ==
    LET old_map == _flatten_sections(old)
        new_map == _flatten_sections(new)
        addE == EntriesNotIn(new_map, old_map)
        remE == EntriesNotIn(old_map, new_map)
        added == [i \in DOMAIN addE |-> AddedChange(addE[i][1], addE[i][2])]
        removed == [i \in DOMAIN remE |-> RemovedChange(remE[i][1], remE[i][2])]
        modIds == SelectSeq(order, LAMBDA sid :
                     IsModified(Lookup(old_map, sid).content,
                                Lookup(new_map, sid).content, threshold))
        modified == [i \in DOMAIN modIds |->
                       Change("modified", modIds[i],
                              Lookup(old_map, modIds[i]).content,
                              Lookup(new_map, modIds[i]).content,
                              compute_similarity(Lookup(old_map, modIds[i]).content,
                                                 Lookup(new_map, modIds[i]).content),
                              Lookup(new_map, modIds[i]).title)]
    IN added \o removed \o modified

\* one call detector.detect_changes(old_doc, new_doc); a later call on the
\* same trees is a later run of the program
DetectChanges ==
    /\ \E order \in Perms(Shared(_flatten_sections(old_doc),
                                 _flatten_sections(new_doc))) :
          changes' = detect_changes(old_doc, new_doc, similarity_threshold, order)
    /\ prev_changes' = changes
    /\ prev_outcome' = outcome
    /\ outcome' = "returned"
    /\ UNCHANGED <<old_doc, new_doc, similarity_threshold, chunkVars, par>>

-----------------------------------------------------------------------------
(* docx_parser.py: text helpers *)

None == "<None>"     \* Python None in a field that otherwise holds a str

count_tokens(text) ==
    IF Len(Strip(text)) = 0 THEN 0
    ELSE Max2(1, Len(Strip(text)) \div 4)

RECURSIVE SentenceEnd(_, _)
\* index of the first "." at or after i that ends a sentence, i.e. is
\* followed by white space or by the end of the text; Len(text) if none
SentenceEnd(text, i) ==
    IF i >= Len(text) THEN Len(text)
    ELSE IF Ch(text, i) = "." /\ (i + 1 = Len(text) \/ IsSpace(Ch(text, i + 1)))
    THEN i
    ELSE SentenceEnd(text, i + 1)

RECURSIVE split_into_sentences(_)
\* [s.text.strip() for s in nlp(text).sents if s.text.strip()], the
\* sentence boundaries of spaCy taken to be the full stops that end a word
split_into_sentences(text) ==
    IF Len(Strip(text)) = 0 THEN <<>>
    ELSE LET e == SentenceEnd(text, 0)
             sent == Strip(Slice(text, 0, e + 1))
         IN (IF Len(sent) = 0 THEN <<>> ELSE <<sent>>)
            \o split_into_sentences(Slice(text, e + 1, Len(text)))

RECURSIVE SplitLoopDropping(_, _, _, _, _)
\* the loop with `cur = ""` at line 43: the sentence that does not fit is lost
SplitLoopDropping(sents, k, chunks, cur, max_tokens) ==
    IF k > Len(sents)
    THEN IF Len(Strip(cur)) > 0 THEN Append(chunks, Strip(cur)) ELSE chunks
    ELSE LET sent == sents[k]
             cand == IF cur # "" THEN cur \o " " \o sent ELSE sent
         IN IF count_tokens(cand) > max_tokens /\ cur # ""
            THEN SplitLoopDropping(sents, k + 1, Append(chunks, Strip(cur)), "",
                                   max_tokens)
            ELSE SplitLoopDropping(sents, k + 1, chunks, cand, max_tokens)

RECURSIVE SplitLoopNoFlush(_, _, _, _, _)
\* the loop without the test of line 41: the buffer is flushed at the end only
SplitLoopNoFlush(sents, k, chunks, cur, max_tokens) ==
    IF k > Len(sents)
    THEN IF Len(Strip(cur)) > 0 THEN Append(chunks, Strip(cur)) ELSE chunks
    ELSE SplitLoopNoFlush(sents, k + 1, chunks,
                          IF cur # "" THEN cur \o " " \o sents[k] ELSE sents[k],
                          max_tokens)

RECURSIVE SplitLoop(_, _, _, _, _)
\* the loop `for sent in sents` of split_long_text and the final flush
SplitLoop(sents, k, chunks, cur, max_tokens) ==
    IF k > Len(sents)
    THEN IF Len(Strip(cur)) > 0 THEN Append(chunks, Strip(cur)) ELSE chunks
    ELSE LET sent == sents[k]
             cand == IF cur # "" THEN cur \o " " \o sent ELSE sent
         IN IF count_tokens(cand) > max_tokens /\ cur # ""
            THEN SplitLoop(sents, k + 1, Append(chunks, Strip(cur)), sent, max_tokens)
            ELSE SplitLoop(sents, k + 1, chunks, cand, max_tokens)

split_long_text(text, max_tokens) ==
    IF Len(Strip(text)) = 0 THEN <<>>
    ELSE LET sents == split_into_sentences(text)
         IN IF sents = <<>> THEN <<Strip(text)>>
            ELSE SplitLoop(sents, 1, <<>>, "", max_tokens)

RECURSIVE DigitsLen(_, _)
\* number of digits of s from index i on
DigitsLen(s, i) == IF IsDigit(Ch(s, i)) THEN 1 + DigitsLen(s, i + 1) ELSE 0

RECURSIVE ExtendNumber(_, _)
\* end of the match of (\.\d+)* from index e on
ExtendNumber(s, e) ==
    IF Ch(s, e) = "." /\ DigitsLen(s, e + 1) > 0
    THEN ExtendNumber(s, e + 1 + DigitsLen(s, e + 1))
    ELSE e

\* length of the match of ^\d+(\.\d+)* in s, 0 if there is none
NumberLen(s) == IF DigitsLen(s, 0) = 0 THEN 0 ELSE ExtendNumber(s, DigitsLen(s, 0))

\* bool(text and re.match(r"^\d+(\.\d+)*\s", text.strip()))
is_heading(text) ==
    LET t == Strip(text)
    IN NumberLen(t) > 0 /\ IsSpace(Ch(t, NumberLen(t)))

\* re.match(r"^(\d+(\.\d+)*)", text.strip()).group(1), or None
extract_section_number(text) ==
    LET t == Strip(text)
    IN IF NumberLen(t) = 0 THEN None ELSE Slice(t, 0, NumberLen(t))

\* re.sub(r"^\d+(\.\d+)*\s*", "", text.strip())
extract_title(text) ==
    LET t == Strip(text)
    IN IF NumberLen(t) = 0 THEN t
       ELSE LStrip(Slice(t, NumberLen(t), Len(t)))

RECURSIVE LastDot(_, _)
\* index of the last "." of s before index i, -1 if none
LastDot(s, i) ==
    IF i <= 0 THEN -1
    ELSE IF Ch(s, i - 1) = "." THEN i - 1 ELSE LastDot(s, i - 1)

\* ".".join(sec.split(".")[:-1]) if "." in sec else None
ParentOf(sec) ==
    IF LastDot(sec, Len(sec)) < 0 THEN None ELSE Slice(sec, 0, LastDot(sec, Len(sec)))

\* f"{section}_{n}"
ChunkId(section, n) == section \o "_" \o ToString(n)

-----------------------------------------------------------------------------
(* docx_parser.py: merge_small_chunks *)

\* the inner loop as an `if`: at most one successor is absorbed
AbsorbOnce(chunks, i, curr, min_chunk_tokens, max_tokens) ==
    IF /\ i + 1 <= Len(chunks)
       /\ curr.tokens < min_chunk_tokens
       /\ chunks[i + 1].chunk_type # "heading"
       /\ curr.section_id = chunks[i + 1].section_id
       /\ count_tokens(curr.content \o " " \o chunks[i + 1].content) <= max_tokens
    THEN <<[curr EXCEPT
              !.content = curr.content \o " " \o chunks[i + 1].content,
              !.tokens = count_tokens(curr.content \o " " \o chunks[i + 1].content)],
           i + 1>>
    ELSE <<curr, i>>

RECURSIVE AbsorbNoMaxCheck(_, _, _, _, _)
\* the inner while loop without the test of line 74
AbsorbNoMaxCheck(chunks, i, curr, min_chunk_tokens, max_tokens) ==
    IF /\ i + 1 <= Len(chunks)
       /\ curr.tokens < min_chunk_tokens
       /\ chunks[i + 1].chunk_type # "heading"
       /\ curr.section_id = chunks[i + 1].section_id
    THEN LET combined == curr.content \o " " \o chunks[i + 1].content
         IN AbsorbNoMaxCheck(chunks, i + 1,
                             [curr EXCEPT !.content = combined,
                                          !.tokens = count_tokens(combined)],
                             min_chunk_tokens, max_tokens)
    ELSE <<curr, i>>

RECURSIVE AbsorbStaleTokens(_, _, _, _, _)
\* the inner while loop without line 76: tokens stays that of the first chunk
AbsorbStaleTokens(chunks, i, curr, min_chunk_tokens, max_tokens) ==
    IF /\ i + 1 <= Len(chunks)
       /\ curr.tokens < min_chunk_tokens
       /\ chunks[i + 1].chunk_type # "heading"
       /\ curr.section_id = chunks[i + 1].section_id
    THEN LET combined == curr.content \o " " \o chunks[i + 1].content
         IN IF count_tokens(combined) <= max_tokens
            THEN AbsorbStaleTokens(chunks, i + 1, [curr EXCEPT !.content = combined],
                                   min_chunk_tokens, max_tokens)
            ELSE <<curr, i>>
    ELSE <<curr, i>>

RECURSIVE Absorb(_, _, _, _, _)
\* the inner while loop (lines 66-79) started with curr at index i (1-based):
\* the chunk and the index it ends with
Absorb(chunks, i, curr, min_chunk_tokens, max_tokens) ==
    IF /\ i + 1 <= Len(chunks)
       /\ curr.tokens < min_chunk_tokens
       /\ chunks[i + 1].chunk_type # "heading"
       /\ curr.section_id = chunks[i + 1].section_id
    THEN LET nxt == chunks[i + 1]
             combined == curr.content \o " " \o nxt.content
         IN IF count_tokens(combined) <= max_tokens
            THEN Absorb(chunks, i + 1,
                        [curr EXCEPT !.content = combined,
                                     !.tokens = count_tokens(combined)],
                        min_chunk_tokens, max_tokens)
            ELSE <<curr, i>>
    ELSE <<curr, i>>

RECURSIVE MergeFrom(_, _, _, _, _)
\* the outer while loop from index i on
MergeFrom(chunks, i, out, min_chunk_tokens, max_tokens) ==
    IF i > Len(chunks) THEN out
    ELSE IF chunks[i].chunk_type = "heading"
    THEN MergeFrom(chunks, i + 1, Append(out, chunks[i]), min_chunk_tokens, max_tokens)
    ELSE LET r == Absorb(chunks, i, chunks[i], min_chunk_tokens, max_tokens)
         IN MergeFrom(chunks, r[2] + 1, Append(out, r[1]), min_chunk_tokens, max_tokens)

\* merge_small_chunks(chunks), reading the globals MIN_CHUNK_TOKENS, MAX_TOKENS
merge_small_chunks(chunks, min_chunk_tokens, max_tokens) ==
    MergeFrom(chunks, 1, <<>>, min_chunk_tokens, max_tokens)

-----------------------------------------------------------------------------
(* docx_parser.py: parse_docx *)

Chunk(section, parent, title, n, content, type) ==
    [section_id |-> section, parent_section |-> parent, title |-> title,
     chunk_id |-> ChunkId(section, n), content |-> content, chunk_type |-> type,
     position |-> n, tokens |-> count_tokens(content)]

\* the parse state without the preamble heading chunk
ParseStartNoHeading ==
    [chunks |-> <<>>, current_section |-> "0_preamble", parent |-> None, pos |-> 0]

\* the preamble heading with its title as content, as a numbered heading has
ParseStartTitled ==
    [chunks |-> <<Chunk("0_preamble", None, "Preamble", 0, "Preamble", "heading")>>,
     current_section |-> "0_preamble", parent |-> None, pos |-> 0]

\* lines 102-114: the preamble heading and the parse state
ParseStart ==
    [chunks |-> <<Chunk("0_preamble", None, "Preamble", 0, "", "heading")>>,
     current_section |-> "0_preamble", parent |-> None, pos |-> 0]

RECURSIVE AddSubs(_, _, _)
\* the loop of add_text over the pieces of one text
AddSubs(st, subs, k) ==
    IF k > Len(subs) THEN st
    ELSE AddSubs([st EXCEPT
                     !.pos = st.pos + 1,
                     !.chunks = Append(st.chunks,
                         Chunk(st.current_section, st.parent, None, st.pos + 1,
                               subs[k], "paragraph"))],
                 subs, k + 1)

add_text(st, text, max_tokens) == AddSubs(st, split_long_text(text, max_tokens), 1)

RECURSIVE AddTexts(_, _, _, _)
\* `if x.text.strip(): add_text(x.text.strip())` over a list of texts
AddTexts(st, texts, k, max_tokens) ==
    IF k > Len(texts) THEN st
    ELSE AddTexts(IF Len(Strip(texts[k])) > 0
                  THEN add_text(st, Strip(texts[k]), max_tokens) ELSE st,
                  texts, k + 1, max_tokens)

RECURSIVE BodyUpToContents(_, _, _, _)
\* step 1 from paragraph idx (0-based) on: the state and stop_at (-1: None)
BodyUpToContents(st, paragraphs, idx, max_tokens) ==
    IF idx >= Len(paragraphs) THEN <<st, -1>>
    ELSE LET txt == Strip(paragraphs[idx + 1])
         IN IF Len(txt) = 0
            THEN BodyUpToContents(st, paragraphs, idx + 1, max_tokens)
            ELSE IF StartsWith(Lower(txt), "contents") THEN <<st, idx>>
            ELSE BodyUpToContents(add_text(st, txt, max_tokens), paragraphs,
                                  idx + 1, max_tokens)

RECURSIVE BodyFrom(_, _, _, _)
\* step 4 from paragraph idx (0-based) on
BodyFrom(st, paragraphs, idx, max_tokens) ==
    IF idx >= Len(paragraphs) THEN st
    ELSE LET txt == Strip(paragraphs[idx + 1])
             sec == extract_section_number(txt)
             title == extract_title(txt)
         IN IF Len(txt) = 0 THEN BodyFrom(st, paragraphs, idx + 1, max_tokens)
            ELSE IF is_heading(txt)
            THEN BodyFrom(
                   IF sec # None
                   THEN [chunks |-> Append(st.chunks,
                            Chunk(sec, ParentOf(sec), title, 0, title, "heading")),
                         current_section |-> sec, parent |-> ParentOf(sec), pos |-> 0]
                   ELSE st,
                   paragraphs, idx + 1, max_tokens)
            ELSE BodyFrom(add_text(st, txt, max_tokens), paragraphs, idx + 1,
                          max_tokens)

\* lines 101-189: the list `chunks` handed to merge_small_chunks
CollectChunks(doc, max_tokens) ==
    LET s1 == BodyUpToContents(ParseStart, doc.paragraphs, 0, max_tokens)
        stop_at == s1[2]
        s2a == AddTexts(s1[1], doc.header_paragraphs, 1, max_tokens)
        s2b == AddTexts(s2a, doc.header_cells, 1, max_tokens)
        s3 == AddTexts(s2b, doc.table_cells, 1, max_tokens)
        s4 == BodyFrom(s3, doc.paragraphs, IF stop_at = -1 THEN 0 ELSE stop_at,
                       max_tokens)
    IN s4.chunks

\* numbering that restarts at every heading chunk
RenumberPerHeading(chunks) ==
    [i \in DOMAIN chunks |->
        LET h == CHOOSE j \in 1..i :
                    /\ chunks[j].chunk_type = "heading"
                    /\ \A k \in (j + 1)..i : chunks[k].chunk_type # "heading"
        IN [chunks[i] EXCEPT !.chunk_id = ChunkId(chunks[i].section_id, i - h),
                             !.position = i - h]]

\* no re-numbering: the chunks keep the numbers given when they were created
RenumberKeep(chunks) == chunks

\* lines 193-199: counters[sec] is the number of earlier chunks of section sec
Renumber(chunks) ==
    [i \in DOMAIN chunks |->
        LET idx == Cardinality({j \in 1..(i - 1) :
                                   chunks[j].section_id = chunks[i].section_id})
        IN [chunks[i] EXCEPT !.chunk_id = ChunkId(chunks[i].section_id, idx),
                             !.position = idx]]

-----------------------------------------------------------------------------
(* The documents and arguments given to parse_docx *)

MaxParagraphs == 3   \* body paragraphs of a document

ParagraphTexts ==
    {" ", "Contents", "1 Scope", "1.1 Terms", "aaa.", "aaa. bbbbbbb.", "aaaaaaaaaaa."}
\* the paragraphs of the page header, the cells of its tables and the
\* cells of the tables of the body, in reading order
HeaderParagraphs == {<<>>, <<"hhh.">>}
HeaderCells == {<<>>, <<"ccc.">>}
TableCells == {<<>>, <<"ccc.">>}
MaxTokensArgs == {2, 3}
MinChunkTokensArgs == {2, 3}

SeqsUpTo(S, n) == UNION {[1..k -> S] : k \in 0..n}

DocxDocuments ==
    [paragraphs : SeqsUpTo(ParagraphTexts, MaxParagraphs),
     header_paragraphs : HeaderParagraphs,
     header_cells : HeaderCells,
     table_cells : TableCells]

\* one call parse_docx(file_path, max_tokens, min_chunk_tokens)
ParseDocxCall(max_tokens, min_chunk_tokens) ==
    /\ pc = "start"
    /\ MAX_TOKENS' = max_tokens
    /\ MIN_CHUNK_TOKENS' = min_chunk_tokens
    /\ raw_chunks' = CollectChunks(document, MAX_TOKENS')
    /\ merged' = merge_small_chunks(raw_chunks', MIN_CHUNK_TOKENS', MAX_TOKENS')
    /\ result' = Renumber(merged')
    /\ pc' = "parsed"
    /\ UNCHANGED <<document, remerged, detVars, par>>

ParseDocx ==
    \E max_tokens \in MaxTokensArgs, min_chunk_tokens \in MinChunkTokensArgs :
        ParseDocxCall(max_tokens, min_chunk_tokens)

\* the merge pass run again, on its own output
MergeAgain ==
    /\ pc = "parsed"
    /\ remerged' = merge_small_chunks(merged, MIN_CHUNK_TOKENS, MAX_TOKENS)
    /\ pc' = "remerged"
    /\ UNCHANGED <<MAX_TOKENS, MIN_CHUNK_TOKENS, document, raw_chunks, merged,
                   result, detVars, par>>

\* the calls of parse_docx that may run side by side
Calls == {"A", "B"}

\* no call of parse_docx is running
ParIdle ==
    par = [p \in Calls |->
             [pc |-> "idle", max_tokens |-> 500, min_chunk_tokens |-> 50,
              chunks |-> <<>>, returned |-> <<>>]]

DetectIdle ==
    /\ old_doc = DocumentSection("1", "Scope", "ab", <<>>)
    /\ new_doc = DocumentSection("1", "Scope", "ab", <<>>)
    /\ similarity_threshold = 85
    /\ changes = <<>>
    /\ prev_changes = <<>>
    /\ outcome = "none"
    /\ prev_outcome = "none"

InitChunk ==
    /\ MAX_TOKENS = 500
    /\ MIN_CHUNK_TOKENS = 50
    /\ document \in DocxDocuments
    /\ raw_chunks = <<>>
    /\ merged = <<>>
    /\ result = <<>>
    /\ remerged = <<>>
    /\ pc = "start"
    /\ ParIdle
    /\ DetectIdle

NextChunk == ParseDocx \/ MergeAgain

SpecChunk == InitChunk /\ [][NextChunk]_vars

-----------------------------------------------------------------------------
(* Two calls of parse_docx on one document, in two threads.  Each call is  *)
(* cut where it writes or reads the module globals.                        *)

\* what parse_docx(doc, max_tokens, min_chunk_tokens) returns when run alone
ParseAlone(doc, max_tokens, min_chunk_tokens) ==
    Renumber(merge_small_chunks(CollectChunks(doc, max_tokens),
                                min_chunk_tokens, max_tokens))

\* documents without page header and tables
BodyDocuments ==
    {d \in DocxDocuments :
        d.header_paragraphs = <<>> /\ d.header_cells = <<>> /\ d.table_cells = <<>>}

\* lines 94-95: the call writes its arguments to the globals
SetGlobals(p) ==
    /\ par[p].pc = "called"
    /\ MAX_TOKENS' = par[p].max_tokens
    /\ MIN_CHUNK_TOKENS' = par[p].min_chunk_tokens
    /\ par' = [par EXCEPT ![p].pc = "set"]
    /\ UNCHANGED <<document, raw_chunks, merged, result, remerged, pc, detVars>>

\* lines 101-189: add_text splits with the global MAX_TOKENS
Collect(p) ==
    /\ par[p].pc = "set"
    /\ par' = [par EXCEPT ![p].pc = "collected",
                          ![p].chunks = CollectChunks(document, MAX_TOKENS)]
    /\ UNCHANGED <<chunkVars, detVars>>

\* lines 191-201: merge_small_chunks reads both globals; re-number; return
MergeReturn(p) ==
    /\ par[p].pc = "collected"
    /\ par' = [par EXCEPT
                 ![p].pc = "done",
                 ![p].returned = Renumber(merge_small_chunks(par[p].chunks,
                                              MIN_CHUNK_TOKENS, MAX_TOKENS))]
    /\ UNCHANGED <<chunkVars, detVars>>

InitPar ==
    /\ MAX_TOKENS = 500
    /\ MIN_CHUNK_TOKENS = 50
    /\ document \in BodyDocuments
    /\ raw_chunks = <<>>
    /\ merged = <<>>
    /\ result = <<>>
    /\ remerged = <<>>
    /\ pc = "idle"
    /\ par \in [Calls -> [pc : {"called"}, max_tokens : MaxTokensArgs,
                          min_chunk_tokens : MinChunkTokensArgs,
                          chunks : {<<>>}, returned : {<<>>}]]
    /\ DetectIdle

NextPar == \E p \in Calls : SetGlobals(p) \/ Collect(p) \/ MergeReturn(p)

SpecPar == InitPar /\ [][NextPar]_vars

-----------------------------------------------------------------------------
(* The specification of the change classifier *)

ChunkIdle ==
    /\ MAX_TOKENS = 500
    /\ MIN_CHUNK_TOKENS = 50
    /\ document = <<>>
    /\ raw_chunks = <<>>
    /\ merged = <<>>
    /\ result = <<>>
    /\ remerged = <<>>
    /\ pc = "idle"

Init ==
    /\ old_doc \in Documents
    /\ new_doc \in Documents
    /\ similarity_threshold \in Thresholds
    /\ changes = <<>>
    /\ prev_changes = <<>>
    /\ outcome = "none"
    /\ prev_outcome = "none"
    /\ ChunkIdle
    /\ ParIdle

Next == DetectChanges

Spec == Init /\ [][Next]_vars

-----------------------------------------------------------------------------
(* The components constructed and called with any configuration *)

\* token bounds a caller may pass, valid or not
ConfigTokenArgs == {-1, 0, 2}
\* thresholds a caller may pass, in hundredths: 0.0, 0.85, 1.0, 1.5
ConfigThresholds == {0, 85, 100, 150}

\* parse_docx with any token bounds: lines 94-95 store them unchecked
ParseDocxConfig ==
    \E max_tokens \in ConfigTokenArgs, min_chunk_tokens \in ConfigTokenArgs :
        ParseDocxCall(max_tokens, min_chunk_tokens)

InitConfig ==
    /\ old_doc \in SectionsOfSize(1)
    /\ new_doc \in SectionsOfSize(1)
    /\ similarity_threshold \in ConfigThresholds
    /\ changes = <<>>
    /\ prev_changes = <<>>
    /\ outcome = "none"
    /\ prev_outcome = "none"
    /\ MAX_TOKENS = 500
    /\ MIN_CHUNK_TOKENS = 50
    /\ document \in {d \in BodyDocuments : Len(d.paragraphs) <= 1}
    /\ raw_chunks = <<>>
    /\ merged = <<>>
    /\ result = <<>>
    /\ remerged = <<>>
    /\ pc = "start"
    /\ ParIdle

NextConfig == DetectChanges \/ ParseDocxConfig

SpecConfig == InitConfig /\ [][NextConfig]_vars

-----------------------------------------------------------------------------
(* What the claims speak of, read off the trees themselves *)

RECURSIVE PreOrder(_), PreOrderAll(_, _)
\* the sections of a tree in pre-order
PreOrder(sec) == <<sec>> \o PreOrderAll(sec.subsections, 1)
PreOrderAll(subs, i) ==
    IF i > Len(subs) THEN <<>>
    ELSE PreOrder(subs[i]) \o PreOrderAll(subs, i + 1)

IdsOf(doc) == {PreOrder(doc)[i].section_id : i \in DOMAIN PreOrder(doc)}

HasDuplicateIds(doc) ==
    \E i, j \in DOMAIN PreOrder(doc) :
        i # j /\ PreOrder(doc)[i].section_id = PreOrder(doc)[j].section_id

\* the section the classifier reads for an id: the last one in pre-order
SectionOf(doc, sid) ==
    LET po == PreOrder(doc)
        last == CHOOSE i \in DOMAIN po :
                   /\ po[i].section_id = sid
                   /\ \A j \in DOMAIN po : po[j].section_id = sid => j <= i
    IN po[last]

IdsOfType(type) ==
    {changes[i].section_id : i \in {j \in DOMAIN changes : changes[j].change_type = type}}

ChangedIds == {changes[i].section_id : i \in DOMAIN changes}

TypeRank(type) ==
    CASE type = "added" -> 1 [] type = "removed" -> 2 [] type = "modified" -> 3

-----------------------------------------------------------------------------
(* Claims on detect_changes, checked under Spec *)

\* C1: ADDED is emitted for exactly the ids of N \ O, REMOVED for exactly the
\* ids of O \ N, and no section id appears in more than one Change.
C1_Partition ==
    outcome = "returned" =>
        /\ IdsOfType("added") = IdsOf(new_doc) \ IdsOf(old_doc)
        /\ IdsOfType("removed") = IdsOf(old_doc) \ IdsOf(new_doc)
        /\ \A i, j \in DOMAIN changes :
              changes[i].section_id = changes[j].section_id => i = j

\* a call returned additions and removals for trees that repeat an id
C1_Witness ==
    /\ outcome = "returned"
    /\ IdsOfType("added") # {}
    /\ IdsOfType("removed") # {}
    /\ HasDuplicateIds(new_doc)

\* C2: MODIFIED is emitted for an id iff the id is in both trees, the two
\* contents differ and the similarity is strictly below the threshold; any
\* other shared id produces no Change at all.
C2_ModifiedIff ==
    outcome = "returned" =>
        \A sid \in IdsOf(old_doc) \cup IdsOf(new_doc) :
            LET both == sid \in IdsOf(old_doc) \cap IdsOf(new_doc)
                old_text == SectionOf(old_doc, sid).content
                new_text == SectionOf(new_doc, sid).content
                material ==
                    /\ both
                    /\ old_text # new_text
                    /\ FracLess(compute_similarity(old_text, new_text),
                                <<similarity_threshold, 100>>)
            IN /\ (sid \in IdsOfType("modified")) <=> material
               /\ (both /\ ~material) => sid \notin ChangedIds

\* a call reported one shared section as MODIFIED and left another, whose
\* content is unchanged, out of the list
C2_Witness ==
    /\ outcome = "returned"
    /\ IdsOfType("modified") # {}
    /\ \E sid \in IdsOf(old_doc) \cap IdsOf(new_doc) :
          /\ SectionOf(old_doc, sid).content = SectionOf(new_doc, sid).content
          /\ sid \notin ChangedIds

\* C3: an ADDED change carries the new section's id and content, an empty
\* old_content and the score 1.0; a REMOVED change carries the old section's
\* id and content, an empty new_content and the score 1.0.
C3_AddedRemovedFields ==
    outcome = "returned" =>
        \A i \in DOMAIN changes :
            LET c == changes[i] IN
            /\ c.change_type = "added" =>
                  /\ c.section_id \in IdsOf(new_doc)
                  /\ c.new_content = SectionOf(new_doc, c.section_id).content
                  /\ c.old_content = ""
                  /\ c.similarity_score = ONE
            /\ c.change_type = "removed" =>
                  /\ c.section_id \in IdsOf(old_doc)
                  /\ c.old_content = SectionOf(old_doc, c.section_id).content
                  /\ c.new_content = ""
                  /\ c.similarity_score = ONE

\* a call returned an ADDED and a REMOVED change
C3_Witness ==
    /\ outcome = "returned"
    /\ \E i, j \in DOMAIN changes :
          changes[i].change_type = "added" /\ changes[j].change_type = "removed"

\* C4: the returned list has all ADDED changes first, then all REMOVED, then
\* all MODIFIED, and within each type ascending section_id.
C4_Ordered ==
    outcome = "returned" =>
        \A i, j \in DOMAIN changes :
            i < j =>
               \/ TypeRank(changes[i].change_type) < TypeRank(changes[j].change_type)
               \/ /\ changes[i].change_type = changes[j].change_type
                  /\ StrLess(changes[i].section_id, changes[j].section_id)

\* C5: two runs of detect_changes on the same trees and threshold return the
\* same list in the same order.
C5_Deterministic ==
    (outcome = "returned" /\ prev_outcome = "returned") => changes = prev_changes

\* C6: a tree that holds one section_id on two sections is reported as a
\* data-integrity violation: the call does not return a change list for it.
C6_DuplicateReported ==
    (HasDuplicateIds(old_doc) \/ HasDuplicateIds(new_doc)) => outcome # "returned"

-----------------------------------------------------------------------------
(* Claims on the chunker, checked under SpecChunk *)

Parsed == pc \in {"parsed", "remerged"}

ParagraphIdx == {i \in DOMAIN result : result[i].chunk_type = "paragraph"}
HeadingIdx == {i \in DOMAIN result : result[i].chunk_type = "heading"}

\* C7: every paragraph chunk of the returned list has tokens <= max_tokens.
C7_MaxTokenBound ==
    Parsed => \A i \in ParagraphIdx : result[i].tokens <= MAX_TOKENS

\* C8: after the merge pass every paragraph chunk has tokens >= min_tokens
\* unless it is the only paragraph chunk of its section.
C8_MinTokenBound ==
    Parsed =>
        \A i \in ParagraphIdx :
            \/ result[i].tokens >= MIN_CHUNK_TOKENS
            \/ \A j \in ParagraphIdx :
                  result[j].section_id = result[i].section_id => j = i

\* C9: the chunk_id values of a returned list are pairwise distinct, also
\* when a section number is a heading more than once and for the preamble.
C9_ChunkIdsDistinct ==
    Parsed =>
        \A i, j \in DOMAIN result : result[i].chunk_id = result[j].chunk_id => i = j

\* a returned list with two heading chunks of one section number and with
\* paragraph chunks in the preamble
C9_Witness ==
    /\ Parsed
    /\ \E i, j \in HeadingIdx : i # j /\ result[i].section_id = result[j].section_id
    /\ \E i \in ParagraphIdx : result[i].section_id = "0_preamble"

\* C10: the merge pass run on its own output performs no further merge.
C10_MergeIdempotent ==
    pc = "remerged" => remerged = merged

\* the merge pass was run again on a list in which it had merged chunks
C10_Witness ==
    /\ pc = "remerged"
    /\ Len(merged) < Len(raw_chunks)

-----------------------------------------------------------------------------
(* Claims on parse_docx calls that run side by side, checked under SpecPar *)

\* C11: when two parse_docx calls are interleaved, each call returns exactly
\* the chunk list it returns when run alone.
C11_CallsIsolated ==
    \A p \in Calls :
        par[p].pc = "done" =>
            par[p].returned = ParseAlone(document, par[p].max_tokens,
                                         par[p].min_chunk_tokens)

-----------------------------------------------------------------------------
(* Claim on the configuration, checked under SpecConfig *)

\* C12: a call of parse_docx with a non-positive max_tokens or
\* min_chunk_tokens never returns chunks, and a ChangeDetector whose
\* similarity_threshold is outside the open interval (0,1) never returns changes.
C12_InvalidConfigRejected ==
    /\ pc = "parsed" => (MAX_TOKENS > 0 /\ MIN_CHUNK_TOKENS > 0)
    /\ outcome = "returned" => similarity_threshold \in 1..99

-----------------------------------------------------------------------------
(* Claims on the structure of the returned list, checked under SpecChunk *)

\* C13: in a returned list every paragraph chunk comes after a heading chunk
\* with the same section_id, and every chunk with position 0 is a heading chunk.
C13_HeadingPrecedes ==
    Parsed =>
        \A i \in DOMAIN result :
            /\ i \in ParagraphIdx =>
                  \E j \in 1..(i - 1) :
                      /\ j \in HeadingIdx
                      /\ result[j].section_id = result[i].section_id
            /\ result[i].position = 0 => i \in HeadingIdx

\* a returned list with paragraph chunks in the preamble and in a numbered
\* section, in which the merge pass has merged chunks
C13_Witness ==
    /\ Parsed
    /\ Len(merged) < Len(raw_chunks)
    /\ \E i \in ParagraphIdx : result[i].section_id = "0_preamble"
    /\ \E i \in ParagraphIdx : result[i].section_id # "0_preamble"

\* every paragraph, header text and table cell of doc is blank
NoText(doc) ==
    \A texts \in {doc.paragraphs, doc.header_paragraphs, doc.header_cells,
                  doc.table_cells} :
        \A k \in DOMAIN texts : Len(Strip(texts[k])) = 0

\* C14: for a document without any non-blank text the returned list is
\* exactly one chunk: the preamble heading with section_id "0_preamble",
\* chunk_id "0_preamble_0", position 0 and tokens 0.
C14_EmptyDocument ==
    (Parsed /\ NoText(document)) =>
        /\ Len(result) = 1
        /\ result[1].chunk_type = "heading"
        /\ result[1].section_id = "0_preamble"
        /\ result[1].chunk_id = "0_preamble_0"
        /\ result[1].position = 0
        /\ result[1].tokens = 0

\* a document of blank paragraphs only has been parsed
C14_Witness ==
    /\ Parsed
    /\ NoText(document)
    /\ Len(document.paragraphs) > 0

-----------------------------------------------------------------------------
(* Claims on the merge pass, checked under SpecChunk on the list handed to *)
(* merge_small_chunks (raw_chunks) and the list it returns (merged)        *)

RECURSIVE JoinRange(_, _, _)
\* the contents of chunks[a..b] joined by single spaces
JoinRange(chunks, a, b) ==
    IF b <= a THEN chunks[a].content
    ELSE JoinRange(chunks, a, b - 1) \o " " \o chunks[b].content

\* the tokens of the chunk that stands for chunks[a..b]
RangeTokens(chunks, a, b) ==
    IF a = b THEN chunks[a].tokens ELSE count_tokens(JoinRange(chunks, a, b))

\* the four conditions under which the chunk made of chunks[a..b] absorbs
\* chunks[b + 1]
MayAbsorb(chunks, a, b) ==
    /\ b + 1 <= Len(chunks)
    /\ chunks[a].chunk_type # "heading"
    /\ RangeTokens(chunks, a, b) < MIN_CHUNK_TOKENS
    /\ chunks[b + 1].chunk_type # "heading"
    /\ chunks[b + 1].section_id = chunks[a].section_id
    /\ count_tokens(JoinRange(chunks, a, b + 1)) <= MAX_TOKENS

\* the last chunk of the group that starts at a: absorbing goes on as long
\* as the conditions hold
GroupEnd(chunks, a) ==
    CHOOSE b \in a..Len(chunks) :
        /\ ~MayAbsorb(chunks, a, b)
        /\ \A k \in a..(b - 1) : MayAbsorb(chunks, a, k)

RECURSIVE GroupStarts(_, _)
\* the indices from a on at which a group starts, in order
GroupStarts(chunks, a) ==
    IF a > Len(chunks) THEN <<>>
    ELSE <<a>> \o GroupStarts(chunks, GroupEnd(chunks, a) + 1)

HeadingCount(chunks) ==
    Cardinality({i \in DOMAIN chunks : chunks[i].chunk_type = "heading"})

\* C15: the merge pass turns each maximal run in which the absorb conditions
\* (current chunk below min_tokens, successor not a heading, same section_id,
\* joined estimate <= max_tokens) hold step after step into one chunk with the
\* joined content and its token estimate, absorbs nothing else, and keeps the
\* number of heading chunks.
C15_MergeRule ==
    Parsed =>
        LET starts == GroupStarts(raw_chunks, 1)
        IN /\ Len(merged) = Len(starts)
           /\ \A m \in DOMAIN merged :
                 LET a == starts[m]
                     b == GroupEnd(raw_chunks, a)
                 IN merged[m] = [raw_chunks[a] EXCEPT
                                    !.content = JoinRange(raw_chunks, a, b),
                                    !.tokens = RangeTokens(raw_chunks, a, b)]
           /\ HeadingCount(merged) = HeadingCount(raw_chunks)

\* one paragraph chunk has absorbed two successors, and another one below
\* min_tokens has not absorbed its same-section successor
C15_Witness ==
    /\ Parsed
    /\ \E m \in DOMAIN merged :
          LET a == GroupStarts(raw_chunks, 1)[m]
          IN /\ raw_chunks[a].chunk_type = "paragraph"
             /\ GroupEnd(raw_chunks, a) >= a + 2
    /\ \E m \in DOMAIN merged :
          LET a == GroupStarts(raw_chunks, 1)[m]
              b == GroupEnd(raw_chunks, a)
          IN /\ b + 1 <= Len(raw_chunks)
             /\ raw_chunks[a].chunk_type = "paragraph"
             /\ raw_chunks[b + 1].chunk_type = "paragraph"
             /\ raw_chunks[b + 1].section_id = raw_chunks[a].section_id
             /\ RangeTokens(raw_chunks, a, b) < MIN_CHUNK_TOKENS

-----------------------------------------------------------------------------
(* Claims on the fields of the returned chunks, checked under SpecChunk *)

\* the indices of the chunks of section s in the returned list
IdxOfSection(s) == {i \in DOMAIN result : result[i].section_id = s}

\* C16: in a returned list the positions of the k chunks of a section are,
\* in list order, 0, 1, ..., k-1, and every chunk_id is
\* "{section_id}_{position}".
C16_DensePositions ==
    Parsed =>
        /\ \A i \in DOMAIN result :
              LET own == IdxOfSection(result[i].section_id)
              IN /\ {result[j].position : j \in own} = 0..(Cardinality(own) - 1)
                 /\ \A j \in own : i < j => result[i].position < result[j].position
        /\ \A i \in DOMAIN result :
              result[i].chunk_id =
                  result[i].section_id \o "_" \o ToString(result[i].position)

\* a chunk that follows a merged one in its section got a smaller position
\* than it was created with
C16_Witness ==
    /\ Parsed
    /\ \E i \in DOMAIN result : result[i].position < merged[i].position

\* the token estimate of a text: 0 if blank, else max(1, stripped length // 4)
TokenEstimate(text) ==
    IF Len(Strip(text)) = 0 THEN 0
    ELSE IF Len(Strip(text)) \div 4 < 1 THEN 1 ELSE Len(Strip(text)) \div 4

\* some text of the document was split into several chunks
SomeTextSplit ==
    \E texts \in {document.paragraphs, document.header_paragraphs,
                  document.header_cells, document.table_cells} :
        \E k \in DOMAIN texts : Len(split_long_text(Strip(texts[k]), MAX_TOKENS)) >= 2

\* C17: every chunk of a returned list has tokens equal to the token estimate
\* of its own content, whether it is a heading, a split piece or a merged chunk.
C17_TokensOfContent ==
    Parsed => \A i \in DOMAIN result : result[i].tokens = TokenEstimate(result[i].content)

\* a returned list with a numbered heading, made from a text that was split,
\* and in which the merge pass has merged chunks
C17_Witness ==
    /\ Parsed
    /\ Len(merged) < Len(raw_chunks)
    /\ SomeTextSplit
    /\ \E i \in HeadingIdx : result[i].section_id # "0_preamble"

-----------------------------------------------------------------------------
(* Claims on what splitting and merging keep, checked under SpecChunk *)

RECURSIVE JoinSents(_, _, _)
\* the sentences sents[a..b] joined by single spaces
JoinSents(sents, a, b) ==
    IF b <= a THEN sents[a] ELSE JoinSents(sents, a, b - 1) \o " " \o sents[b]

RECURSIVE IsGrouping(_, _, _)
\* pieces are the sentences sents[k..] cut into consecutive non-empty
\* groups, each piece being the sentences of its group joined by spaces
IsGrouping(sents, k, pieces) ==
    IF pieces = <<>> THEN k > Len(sents)
    ELSE \E e \in k..Len(sents) :
            /\ Head(pieces) = JoinSents(sents, k, e)
            /\ IsGrouping(sents, e + 1, Tail(pieces))

\* the stripped non-blank texts that parse_docx hands to add_text
TextsOf(doc) ==
    UNION {{Strip(texts[k]) : k \in DOMAIN texts} :
              texts \in {doc.paragraphs, doc.header_paragraphs, doc.header_cells,
                         doc.table_cells}} \ {""}

RECURSIVE SegmentTexts(_, _, _)
\* chunks[k..] folded into out: one entry per heading chunk, with the
\* contents of the paragraph chunks up to the next heading joined by spaces
SegmentTexts(chunks, k, out) ==
    IF k > Len(chunks) THEN out
    ELSE LET c == chunks[k]
             n == Len(out)
         IN IF c.chunk_type = "heading"
            THEN SegmentTexts(chunks, k + 1,
                     Append(out, [section_id |-> c.section_id, title |-> c.title,
                                  text |-> ""]))
            ELSE IF n = 0
            THEN SegmentTexts(chunks, k + 1,
                     <<[section_id |-> c.section_id, title |-> None,
                        text |-> c.content]>>)
            ELSE SegmentTexts(chunks, k + 1,
                     [out EXCEPT ![n].text =
                         IF @ = "" THEN c.content ELSE @ \o " " \o c.content])

\* C18: split_long_text cuts the sentences of a text into consecutive
\* non-empty groups, in order and without loss or repetition, and the merge
\* pass leaves the text between two consecutive heading chunks as it was.
C18_NothingLost ==
    Parsed =>
        /\ \A t \in TextsOf(document) :
              split_into_sentences(t) # <<>> =>
                  IsGrouping(split_into_sentences(t), 1, split_long_text(t, MAX_TOKENS))
        /\ SegmentTexts(merged, 1, <<>>) = SegmentTexts(raw_chunks, 1, <<>>)

\* a text of two sentences was split, and the merge pass has merged chunks
C18_Witness ==
    /\ Parsed
    /\ \E t \in TextsOf(document) :
          /\ Len(split_into_sentences(t)) >= 2
          /\ Len(split_long_text(t, MAX_TOKENS)) >= 2
    /\ Len(merged) < Len(raw_chunks)

\* text is one sentence, or a text in which no sentence is found
SingleUnit(text) == Len(split_into_sentences(text)) <= 1

\* the contents of the chunks handed to the merge pass
RawContents == {raw_chunks[k].content : k \in DOMAIN raw_chunks}

\* C19: a paragraph chunk of a returned list has more than max_tokens tokens
\* only if it is a single sentence (or unsegmentable text) that split_long_text
\* emitted alone and the merge pass left unmerged; a chunk built from two or
\* more sentences, by the split or by a merge, is within max_tokens.
C19_OnlySingleSentenceExceeds ==
    Parsed =>
        /\ \A t \in TextsOf(document) :
              LET pieces == split_long_text(t, MAX_TOKENS)
              IN \A k \in DOMAIN pieces :
                    count_tokens(pieces[k]) > MAX_TOKENS => SingleUnit(pieces[k])
        /\ \A i \in ParagraphIdx :
              result[i].tokens > MAX_TOKENS =>
                  /\ SingleUnit(result[i].content)
                  /\ result[i].content \in RawContents

\* a returned list with a chunk above max_tokens, made from a text that was
\* split, and in which the merge pass has merged chunks
C19_Witness ==
    /\ Parsed
    /\ \E i \in ParagraphIdx : result[i].tokens > MAX_TOKENS
    /\ SomeTextSplit
    /\ Len(merged) < Len(raw_chunks)

====
